---- MODULE Spec2Model ----
(***************************************************************************)
(* leadfoot-driver: the bounded poller (src/src/wait-for.js) and the       *)
(* selector-path resolver Driver.prototype._$ (src/src/index.js).          *)
(***************************************************************************)
EXTENDS Integers, Sequences, FiniteSets, TLC

(* ------------------------------ bounds -------------------------------- *)
\* largest clock reading (ms) the model explores
MaxClock == 3
\* largest options.timeout a caller passes
MaxTimeout == 2
\* largest number of conditionFn invocations explored in one waitFor chain
MaxCalls == 3
\* largest number of elements one lookup finds
MaxEls == 2
\* largest number of key segments in an array path
MaxSegments == 2

\* wait-for.js line 33: the default budget
DefaultTimeout == 1000

(* --------------------------- JavaScript values ------------------------ *)
Num(n) == <<"num", n>>
Str(s) == <<"str", s>>
Bool(b) == <<"bool", b>>
Undefined == <<"undefined">>
NaN == <<"NaN">>
\* a property that the options object does not have
Absent == <<"absent">>

IsNum(v) == v[1] = "num"

\* ToBoolean, as applied by `if (result)`, `!options`, `a || b`: objects
\* (arrays, elements, the command) are truthy
Truthy(v) ==
  CASE v[1] = "bool" -> v[2]
    [] v[1] = "num" -> v[2] # 0
    [] v[1] = "str" -> v[2] # ""
    [] v[1] \in {"undefined", "NaN", "absent"} -> FALSE
    [] OTHER -> TRUE

\* reading a property: a missing property reads as undefined
Get(v) == IF v = Absent THEN Undefined ELSE v

\* a - b on JavaScript numbers; undefined converts to NaN, NaN is contagious
Minus(a, b) == IF IsNum(a) /\ IsNum(b) THEN Num(a[2] - b[2]) ELSE NaN

\* x <= 0; every comparison with NaN is false
LeqZero(x) == IsNum(x) /\ x[2] <= 0

(* ------------------------------ waitFor ------------------------------- *)
VARIABLES
  clock,      \* the value `new Date().getTime()` returns now
  pc,         \* position of the waitFor chain
  args,       \* the options argument of the activation about to start
  start,      \* local `start` of the current activation (line 26)
  timeout,    \* local `timeout` of the current activation (line 33)
  errorMsg,   \* local `errorMsg` of the current activation (line 34)
  callCount,  \* number of conditionFn invocations so far
  outcome,    \* state of the promise the first waitFor call returned
  origArgs,   \* history: the options of the original call
  frames,     \* history: <<start, timeout>> of every activation
  invokedAt,  \* history: clock at every conditionFn invocation
  results,    \* history: how every settled invocation settled
  observedAt  \* history: clock read when each fulfilment was handled

pollerVars == <<clock, pc, args, start, timeout, errorMsg, callCount, outcome,
                origArgs, frames, invokedAt, results, observedAt>>

VARIABLES
  rpc,         \* position of the _$ call chain
  path,        \* history: the path the caller passed to _$
  curPath,     \* argument `path` of the current _$ activation
  context,     \* argument `context` of the current _$ activation
  pathContext, \* argument `pathContext` of the current _$ activation
  consumed,    \* history: how many items of `path` earlier activations took
  lookups,     \* history: every findAllByCssSelector call, with its answer
  selections,  \* history: every index applied to a resolved sequence
  resolved,    \* state of the promise the first _$ call returned
  attempts     \* history: how the _$ call of every waitForRegion attempt settled

resolverVars == <<rpc, path, curPath, context, pathContext, consumed,
                  lookups, selections, resolved, attempts>>

vars == <<pollerVars, resolverVars>>

\* reasons a conditionFn promise or a lookup may be rejected with
Reasons == {<<"Error", "r1">>, <<"Error", "r2">>}
\* values a conditionFn promise may be fulfilled with
ResultValues == {Bool(TRUE), Bool(FALSE), Undefined}
ErrorMsgs == {Absent, Str(""), Str("X")}
Timeouts == {Absent, Undefined} \cup {Num(t) : t \in 0..MaxTimeout}

NoOptions == [given |-> FALSE, timeout |-> Absent, errorMsg |-> Absent]
OptionsValues ==
  {NoOptions} \cup
  {[given |-> TRUE, timeout |-> t, errorMsg |-> m] : t \in Timeouts, m \in ErrorMsgs}

Pending == <<"Pending">>
Succeeded == <<"Succeeded">>
Failed(r) == <<"Failed", r>>
TimedOut(msg) == <<"TimedOut", msg>>

\* lines 29-31: if (!options) options = {}
NormalizeOptions(options) ==
  IF ~options.given
    THEN [given |-> TRUE, timeout |-> Absent, errorMsg |-> Absent]
    ELSE options

\* a falsy-default slip: options.timeout || 1000
TimeoutOfFalsyDefault(options) ==
  IF Truthy(Get(options.timeout)) THEN options.timeout ELSE Num(DefaultTimeout)

\* line 33: 'timeout' in options ? options.timeout : 1000
TimeoutOf(options) ==
  IF options.timeout # Absent THEN options.timeout ELSE Num(DefaultTimeout)

\* line 34: options.errorMsg || 'Timeout'
ErrorMsgOf(options) ==
  IF Truthy(Get(options.errorMsg)) THEN options.errorMsg ELSE Str("Timeout")

\* line 44: delay = new Date().getTime() - start
Delay(now, st) == Minus(Num(now), Num(st))

\* a sign slip: timeout + delay
RemainingAdds(tmo, delay) == Minus(tmo, Minus(Num(0), delay))

\* line 45: remaining = timeout - delay
Remaining(tmo, delay) == Minus(tmo, delay)

\* an off-by-one slip: remaining < 0
ExhaustedStrict(remaining) == IsNum(remaining) /\ remaining[2] < 0

\* line 47: remaining <= 0
Exhausted(remaining) == LeqZero(remaining)

\* line 51: the options of the recursive call
RetryOptions(remaining, msg) ==
  [given |-> TRUE, timeout |-> remaining, errorMsg |-> msg]

\* no _$ call is in progress
ResolverIdle ==
  /\ rpc = "idle"
  /\ path = Undefined
  /\ curPath = Undefined
  /\ context = Undefined
  /\ pathContext = Undefined
  /\ consumed = 0
  /\ lookups = <<>>
  /\ selections = <<>>
  /\ resolved = Pending
  /\ attempts = <<>>

Init ==
  /\ clock \in 0..1
  /\ pc = "entry"
  /\ args \in OptionsValues
  /\ origArgs = args
  /\ start = 0
  /\ timeout = Undefined
  /\ errorMsg = Undefined
  /\ callCount = 0
  /\ outcome = Pending
  /\ frames = <<>>
  /\ invokedAt = <<>>
  /\ results = <<>>
  /\ observedAt = <<>>
  /\ ResolverIdle

\* a preemptive timer: the deadline itself rejects an outstanding attempt
TickPreemptive ==
  /\ clock < MaxClock
  /\ clock' = clock + 1
  /\ IF pc = "pending" /\ IsNum(timeout) /\ clock' - start >= timeout[2]
       THEN outcome' = TimedOut(errorMsg[2]) /\ pc' = "done"
       ELSE outcome' = outcome /\ pc' = pc
  /\ UNCHANGED <<args, start, timeout, errorMsg, callCount,
                 origArgs, frames, invokedAt, results, observedAt>>
  /\ UNCHANGED resolverVars

\* the clock advances between any two steps of the program
Tick ==
  /\ clock < MaxClock
  /\ clock' = clock + 1
  /\ UNCHANGED <<pc, args, start, timeout, errorMsg, callCount, outcome,
                 origArgs, frames, invokedAt, results, observedAt>>
  /\ UNCHANGED resolverVars

\* lines 25-34: an activation of waitFor reads the clock and its options
WaitForEntry ==
  /\ pc = "entry"
  /\ start' = clock
  /\ timeout' = TimeoutOf(NormalizeOptions(args))
  /\ errorMsg' = ErrorMsgOf(NormalizeOptions(args))
  /\ frames' = Append(frames, [start |-> start', timeout |-> timeout'])
  /\ pc' = "invoke"
  /\ UNCHANGED <<clock, args, callCount, outcome, origArgs, invokedAt,
                 results, observedAt>>
  /\ UNCHANGED resolverVars

\* a slip: a second invocation is issued without waiting for the first
InvokeConditionFnTwice ==
  /\ pc = "invoke"
  /\ callCount + 1 < MaxCalls
  /\ callCount' = callCount + 2
  /\ invokedAt' = invokedAt \o <<clock, clock>>
  /\ pc' = "pending"
  /\ UNCHANGED <<clock, args, start, timeout, errorMsg, outcome, origArgs,
                 frames, results, observedAt>>
  /\ UNCHANGED resolverVars

\* line 36: conditionFn()
InvokeConditionFn ==
  /\ pc = "invoke"
  /\ callCount < MaxCalls
  /\ callCount' = callCount + 1
  /\ invokedAt' = Append(invokedAt, clock)
  /\ pc' = "pending"
  /\ UNCHANGED <<clock, args, start, timeout, errorMsg, outcome, origArgs,
                 frames, results, observedAt>>
  /\ UNCHANGED resolverVars

\* a slip following the doc comment of lines 11-12: a rejection is retried
OnRejectedRetries ==
  /\ pc = "pending"
  /\ \E r \in Reasons : results' = Append(results, <<"rejected", r>>)
  /\ observedAt' = Append(observedAt, clock)
  /\ pc' = "entry"
  /\ UNCHANGED <<clock, args, start, timeout, errorMsg, callCount, outcome,
                 origArgs, frames, invokedAt>>
  /\ UNCHANGED resolverVars

\* lines 36-37: .then() has no rejection handler, the reason passes through
OnRejected ==
  /\ pc = "pending"
  /\ \E r \in Reasons :
       /\ results' = Append(results, <<"rejected", r>>)
       /\ outcome' = Failed(r)
  /\ observedAt' = Append(observedAt, clock)
  /\ pc' = "done"
  /\ UNCHANGED <<clock, args, start, timeout, errorMsg, callCount, origArgs,
                 frames, invokedAt>>
  /\ UNCHANGED resolverVars

\* a slip: the `return` of line 41 is missing, a truthy result falls through
HandleResultFallsThrough(result) ==
  LET delay == Delay(clock, start)
      remaining == Remaining(timeout, delay)
  IN /\ results' = Append(results, <<"fulfilled", result>>)
     /\ observedAt' = Append(observedAt, clock)
     /\ IF Exhausted(remaining)
          THEN /\ outcome' = TimedOut(errorMsg[2])
               /\ pc' = "done"
               /\ args' = args
          ELSE /\ outcome' = outcome
               /\ pc' = "entry"
               /\ args' = RetryOptions(remaining, errorMsg)

\* lines 40-51 for one fulfilment value
HandleResult(result) ==
  LET delay == Delay(clock, start)
      remaining == Remaining(timeout, delay)
  IN /\ results' = Append(results, <<"fulfilled", result>>)
     /\ observedAt' = Append(observedAt, clock)
     /\ IF Truthy(result)
          THEN /\ outcome' = Succeeded
               /\ pc' = "done"
               /\ args' = args
          ELSE IF Exhausted(remaining)
            THEN /\ outcome' = TimedOut(errorMsg[2])
                 /\ pc' = "done"
                 /\ args' = args
            ELSE /\ outcome' = outcome
                 /\ pc' = "entry"
                 /\ args' = RetryOptions(remaining, errorMsg)

\* lines 37-52: the fulfilment callback
OnFulfilled ==
  /\ pc = "pending"
  /\ \E result \in ResultValues : HandleResult(result)
  /\ UNCHANGED <<clock, start, timeout, errorMsg, callCount, origArgs,
                 frames, invokedAt>>
  /\ UNCHANGED resolverVars

Next ==
  \/ Tick
  \/ WaitForEntry
  \/ InvokeConditionFn
  \/ OnRejected
  \/ OnFulfilled

Spec == Init /\ [][Next]_vars

TypeOK ==
  /\ clock \in 0..(MaxClock + DefaultTimeout)
  /\ pc \in {"idle", "entry", "invoke", "pending", "done"}
  /\ callCount \in 0..MaxCalls
  /\ Len(results) = Len(observedAt)
  /\ Len(invokedAt) = callCount
  /\ rpc \in {"idle", "call", "lookup", "done"}
  /\ consumed \in 0..(2 * MaxSegments)
  /\ Len(lookups) <= MaxSegments
  /\ Len(selections) <= Len(lookups)
(* --------------------------- Driver.prototype._$ ---------------------- *)
Arr(items) == <<"array", items>>
IsArray(v) == v[1] = "array"
\* this._cmd, the root automation context
Cmd == <<"cmd">>
\* the j-th element a lookup of `selector` within `ctx` finds
Element(ctx, selector, j) == <<"element", ctx, selector, j>>
Error(msg) == <<"Error", msg>>
Fulfilled(v) == <<"fulfilled", v>>
Rejected(reason) == <<"rejected", reason>>

Keys == {"a", "b", "a.b"}

RECURSIVE NamesOfDepth(_)
NamesOfDepth(n) ==
  IF n = 1 THEN Keys
  ELSE {p \o "." \o k : p \in NamesOfDepth(n - 1), k \in Keys}

\* every dotted region name a path of the model can reach
AllNames == UNION {NamesOfDepth(n) : n \in 1..MaxSegments}

\* this._selectors: region name -> CSS selector
Selectors == [name \in AllNames |-> "css:" \o name]

\* build-selector: the selector of region `path` below the label `pathContext`
BuildSelector(selectors, label, p) ==
  selectors[IF Truthy(label) THEN label[2] \o "." \o p[2] ELSE p[2]]

\* line 53: context = context || this._cmd
DefaultContext(ctx) == IF Truthy(ctx) THEN ctx ELSE Cmd

\* line 56: buildSelector(this._selectors, pathContext, path)
SelectorFor(label, p) == BuildSelector(Selectors, label, p)

\* a slip: findByCssSelector, which finds the first match only
LookupResultFirst(els) == IF Len(els) = 0 THEN Arr(<<>>) ELSE Arr(<<els[1]>>)

\* line 58: what context.findAllByCssSelector(selector) is fulfilled with
LookupResult(els) == Arr(els)

\* path[k], zero-based; reading past the end gives undefined
Item(items, k) == IF k < Len(items) THEN items[k + 1] ELSE Undefined

\* a slip: a missing index means the first element (index || 0)
IndexOfDefaultZero(items) ==
  IF Item(items, 1) = Undefined THEN Num(0) ELSE Item(items, 1)

\* line 61: index = path[1]
IndexOf(items) == Item(items, 1)

\* a slip: the Error of lines 81-84 is built but never thrown
IndexMissingNever(el) == FALSE

\* line 80: if (!el)
IndexMissing(el) == ~Truthy(el)

\* line 62: path.slice(2)
Slice2(items) == SubSeq(items, 3, Len(items))

\* line 72: els[index]
At(els, index) ==
  IF IsNum(index) /\ index[2] >= 0 /\ index[2] < Len(els)
    THEN els[index[2] + 1]
    ELSE Undefined

\* a slip: the label is replaced, not extended
ExtendLabelNoPrefix(label, firstPart) == firstPart

\* lines 74-78: pathContext += '.' + firstPart, or pathContext = firstPart
ExtendLabel(label, firstPart) ==
  IF Truthy(label)
    THEN Str(label[2] \o "." \o firstPart[2])
    ELSE firstPart

\* lines 81-84: the message of the resolution error
ExpectedMessage(index, label, els) ==
  "Expected at least " \o ToString(index[2] + 1) \o " elements at region \""
    \o label[2] \o "\", but only found " \o ToString(Len(els)) \o "."

\* a slip: the rest is resolved against the root, not the selected element
DescendFromRoot(rest, el, label) ==
  [path |-> Arr(rest), context |-> Cmd, pathContext |-> label]

\* line 91: the arguments of this._$(rest, el, pathContext)
Descend(rest, el, label) ==
  [path |-> Arr(rest), context |-> el, pathContext |-> label]

KeyValues == {Str(k) : k \in Keys}
IndexValues == {Undefined} \cup {Num(i) : i \in 0..MaxEls}

\* array paths: keys at the odd places, an index or undefined at the even
ArrayPaths ==
  UNION {
    {Arr(items) : items \in
       {f \in [1..n -> KeyValues \cup IndexValues] :
          \A i \in 1..n :
            IF i % 2 = 1 THEN f[i] \in KeyValues ELSE f[i] \in IndexValues}}
    : n \in 1..(2 * MaxSegments)}

StringPaths == {Str(name) : name \in AllNames}

\* no waitFor call is in progress
PollerIdle ==
  /\ clock = 0
  /\ pc = "idle"
  /\ args = NoOptions
  /\ origArgs = NoOptions
  /\ start = 0
  /\ timeout = Undefined
  /\ errorMsg = Undefined
  /\ callCount = 0
  /\ outcome = Pending
  /\ frames = <<>>
  /\ invokedAt = <<>>
  /\ results = <<>>
  /\ observedAt = <<>>

\* driver._$(path): the callers of this repository pass the path alone
InitResolver ==
  /\ PollerIdle
  /\ rpc = "call"
  /\ path \in StringPaths \cup ArrayPaths
  /\ curPath = path
  /\ context = Undefined
  /\ pathContext = Undefined
  /\ consumed = 0
  /\ lookups = <<>>
  /\ selections = <<>>
  /\ resolved = Pending
  /\ attempts = <<>>

\* lines 50-64: an activation of _$ up to the lookup it issues, through the
\* nested call for firstPart when the path is an array
ResolveCall ==
  /\ rpc = "call"
  /\ LET ctx == DefaultContext(context)
         key == IF IsArray(curPath) THEN Item(curPath[2], 0) ELSE curPath
     IN /\ context' = ctx
        /\ lookups' = Append(lookups,
             [context |-> ctx, key |-> key,
              selector |-> SelectorFor(pathContext, key), answer |-> Pending])
  /\ rpc' = "lookup"
  /\ UNCHANGED <<path, curPath, pathContext, consumed, selections, resolved,
                 attempts>>
  /\ UNCHANGED pollerVars

\* the lookup is rejected: no activation handles rejections
OnLookupRejected ==
  /\ rpc = "lookup"
  /\ \E r \in Reasons :
       /\ lookups' = [lookups EXCEPT ![Len(lookups)].answer = Rejected(r)]
       /\ resolved' = Rejected(r)
  /\ rpc' = "done"
  /\ UNCHANGED <<path, curPath, context, pathContext, consumed, selections,
                 attempts>>
  /\ UNCHANGED pollerVars

\* lines 65-92: the callback of the array case, given the elements found
ThenEls(els) ==
  LET firstPart == Item(curPath[2], 0)
      index == IndexOf(curPath[2])
      rest == Slice2(curPath[2])
      el == At(els, index)
      label == ExtendLabel(pathContext, firstPart)
      next == Descend(rest, el, label)
  IN IF index = Undefined
       THEN /\ resolved' = Fulfilled(Arr(els))
            /\ rpc' = "done"
            /\ UNCHANGED <<curPath, context, pathContext, consumed, selections>>
       ELSE /\ selections' = Append(selections,
                 [pos |-> consumed + 2, index |-> index, found |-> els])
            /\ pathContext' = label
            /\ IF IndexMissing(el)
                 THEN /\ resolved' = Rejected(Error(ExpectedMessage(index, label, els)))
                      /\ rpc' = "done"
                      /\ UNCHANGED <<curPath, context, consumed>>
                 ELSE IF Len(rest) = 0
                   THEN /\ resolved' = Fulfilled(el)
                        /\ rpc' = "done"
                        /\ UNCHANGED <<curPath, context, consumed>>
                   ELSE /\ curPath' = next.path
                        /\ context' = next.context
                        /\ consumed' = consumed + 2
                        /\ rpc' = "call"
                        /\ UNCHANGED resolved

\* the lookup is fulfilled with the elements it found
OnLookupFulfilled ==
  /\ rpc = "lookup"
  /\ \E n \in 0..MaxEls :
       LET asked == lookups[Len(lookups)]
           els == [j \in 1..n |-> Element(asked.context, asked.selector, j)]
       IN /\ lookups' = [lookups EXCEPT ![Len(lookups)].answer = Fulfilled(els)]
          /\ IF IsArray(curPath)
               THEN ThenEls(els)
               ELSE /\ resolved' = Fulfilled(LookupResult(els))
                    /\ rpc' = "done"
                    /\ UNCHANGED <<curPath, context, pathContext, consumed,
                                   selections>>
  /\ UNCHANGED <<path, attempts>>
  /\ UNCHANGED pollerVars

NextResolver ==
  \/ ResolveCall
  \/ OnLookupRejected
  \/ OnLookupFulfilled

SpecResolver == InitResolver /\ [][NextResolver]_vars

(* --------------------- Driver.prototype.waitForRegion ----------------- *)
\* Array.prototype.join(','): undefined items give the empty string
RECURSIVE JoinComma(_)
JoinComma(items) ==
  IF Len(items) = 0 THEN ""
  ELSE LET head == items[1]
           text == CASE head[1] = "str" -> head[2]
                     [] head[1] = "num" -> ToString(head[2])
                     [] OTHER -> ""
       IN IF Len(items) = 1 THEN text
          ELSE text \o "," \o JoinComma(Tail(items))

\* the string a region becomes in '...' + region + '...'
RegionText(region) ==
  IF IsArray(region) THEN JoinComma(region[2]) ELSE region[2]

\* lines 179-182: the options waitForRegion passes to waitFor; an omitted
\* timeout argument is passed on as the property timeout: undefined
WaitForRegionOptions(region, tmo) ==
  [given |-> TRUE,
   timeout |-> tmo,
   errorMsg |-> Str("Unable to find element at region \""
                      \o RegionText(region) \o "\"")]

\* els.length: element handles have no length property
LengthOf(v) == IF IsArray(v) THEN Num(Len(v[2])) ELSE Undefined

\* line 187: els.length > 0; a comparison with undefined is false
HasElements(v) == Bool(IsNum(LengthOf(v)) /\ LengthOf(v)[2] > 0)

\* the timeout argument: omitted, or a number of milliseconds
TimeoutArgs == {Undefined} \cup {Num(t) : t \in 0..MaxTimeout}

\* the regions waited for: a string, and arrays of one key, of a key and an
\* index, and of a key, an index and a key
Regions ==
  {Str("a")} \cup
  {r \in ArrayPaths :
     /\ Len(r[2]) <= 3
     /\ \A i \in 1..Len(r[2]) : i % 2 = 1 => r[2][i] = Str("a")}

\* driver.waitForRegion(region, timeout) is called
InitRegion ==
  /\ clock = 0
  /\ pc = "entry"
  /\ path \in Regions
  /\ \E tmo \in TimeoutArgs : args = WaitForRegionOptions(path, tmo)
  /\ origArgs = args
  /\ start = 0
  /\ timeout = Undefined
  /\ errorMsg = Undefined
  /\ callCount = 0
  /\ outcome = Pending
  /\ frames = <<>>
  /\ invokedAt = <<>>
  /\ results = <<>>
  /\ observedAt = <<>>
  /\ rpc = "idle"
  /\ curPath = Undefined
  /\ context = Undefined
  /\ pathContext = Undefined
  /\ consumed = 0
  /\ lookups = <<>>
  /\ selections = <<>>
  /\ resolved = Pending
  /\ attempts = <<>>

\* a slow lookup: more than the default budget passes while it is outstanding
LongWait ==
  /\ rpc = "lookup"
  /\ clock <= MaxClock
  /\ clock' = clock + DefaultTimeout
  /\ UNCHANGED <<pc, args, start, timeout, errorMsg, callCount, outcome,
                 origArgs, frames, invokedAt, results, observedAt>>
  /\ UNCHANGED resolverVars

\* wait-for.js line 36 calling index.js lines 184-185: this._$(region)
RegionInvoke ==
  /\ pc = "invoke"
  /\ callCount < MaxCalls
  /\ callCount' = callCount + 1
  /\ invokedAt' = Append(invokedAt, clock)
  /\ pc' = "pending"
  /\ rpc' = "call"
  /\ curPath' = path
  /\ context' = Undefined
  /\ pathContext' = Undefined
  /\ consumed' = 0
  /\ lookups' = <<>>
  /\ selections' = <<>>
  /\ resolved' = Pending
  /\ UNCHANGED <<clock, args, start, timeout, errorMsg, outcome, origArgs,
                 frames, results, observedAt, path, attempts>>

\* a slip: a failed resolution counts as "not found yet" and is retried
RegionRejectedRetries ==
  /\ pc = "pending"
  /\ rpc = "done"
  /\ resolved[1] = "rejected"
  /\ HandleResult(Bool(FALSE))
  /\ attempts' = Append(attempts, resolved)
  /\ rpc' = "idle"
  /\ UNCHANGED <<clock, start, timeout, errorMsg, callCount, origArgs,
                 frames, invokedAt>>
  /\ UNCHANGED <<path, curPath, context, pathContext, consumed, lookups,
                 selections, resolved>>

\* index.js lines 185-186 and wait-for.js lines 36-37: neither .then() has
\* a rejection handler, the reason of _$ passes through to waitFor's promise
RegionRejected ==
  /\ pc = "pending"
  /\ rpc = "done"
  /\ resolved[1] = "rejected"
  /\ results' = Append(results, <<"rejected", resolved[2]>>)
  /\ outcome' = Failed(resolved[2])
  /\ observedAt' = Append(observedAt, clock)
  /\ pc' = "done"
  /\ attempts' = Append(attempts, resolved)
  /\ rpc' = "idle"
  /\ UNCHANGED <<clock, args, start, timeout, errorMsg, callCount, origArgs,
                 frames, invokedAt>>
  /\ UNCHANGED <<path, curPath, context, pathContext, consumed, lookups,
                 selections, resolved>>

\* index.js lines 186-188 feeding wait-for.js lines 37-52
RegionFulfilled ==
  /\ pc = "pending"
  /\ rpc = "done"
  /\ resolved[1] = "fulfilled"
  /\ HandleResult(HasElements(resolved[2]))
  /\ attempts' = Append(attempts, resolved)
  /\ rpc' = "idle"
  /\ UNCHANGED <<clock, start, timeout, errorMsg, callCount, origArgs,
                 frames, invokedAt>>
  /\ UNCHANGED <<path, curPath, context, pathContext, consumed, lookups,
                 selections, resolved>>

NextRegion ==
  \/ Tick
  \/ LongWait
  \/ WaitForEntry
  \/ RegionInvoke
  \/ ResolveCall
  \/ OnLookupRejected
  \/ OnLookupFulfilled
  \/ RegionRejected
  \/ RegionFulfilled

SpecRegion == InitRegion /\ [][NextRegion]_vars

(* --------------------- waitFor: checked properties -------------------- *)
IsFalsyResult(r) == r[1] = "fulfilled" /\ ~Truthy(r[2])
IsTruthyResult(r) == r[1] = "fulfilled" /\ Truthy(r[2])
AllFalsyBefore(k) == \A j \in 1..(k - 1) : IsFalsyResult(results[j])

\* the timeout and the message the original call asked for
OrigTimeout == TimeoutOf(NormalizeOptions(origArgs))
OrigMessage == ErrorMsgOf(NormalizeOptions(origArgs))[2]

C2_PollerSuccess ==
  \A n \in 1..Len(results) :
    (IsTruthyResult(results[n]) /\ AllFalsyBefore(n))
      => (outcome = Succeeded /\ callCount = n /\ Len(results) = n)

\* C2 witness: success on the third invocation, as in the repository's test
C2_Witness ==
  /\ Len(results) = 3
  /\ IsTruthyResult(results[3])
  /\ outcome = Succeeded
  /\ callCount = 3

\* C3 (as claimed): with a numeric timeout, a falsy result that is handled
\* when the time elapsed since the first call exceeds the original timeout
\* makes waitFor reject with an Error carrying the original call's message.
C3_ExhaustionRejects ==
  \A k \in 1..Len(results) :
    (/\ IsNum(OrigTimeout)
     /\ AllFalsyBefore(k + 1)
     /\ observedAt[k] - frames[1].start > OrigTimeout[2])
      => outcome = TimedOut(OrigMessage)

\* C4 (as claimed): for every retry, the start time it uses plus the timeout
\* it is given equals the first activation's start plus the original timeout.
C4_FixedDeadline ==
  \A i \in 2..Len(frames) :
    IsNum(OrigTimeout)
      => /\ IsNum(frames[i].timeout)
         /\ frames[i].start + frames[i].timeout[2]
              = frames[1].start + OrigTimeout[2]

C6_ZeroTimeoutOneAttempt ==
  (origArgs.given /\ origArgs.timeout = Num(0))
    => /\ callCount <= 1
       /\ (pc \in {"pending", "done"} => callCount = 1)
       /\ (Len(results) >= 1 /\ IsFalsyResult(results[1])
             => outcome = TimedOut(OrigMessage) /\ pc = "done")

\* C6 witness: timeout 0, message "X", one falsy attempt, rejected with "X"
C6_Witness ==
  /\ origArgs.given
  /\ origArgs.timeout = Num(0)
  /\ origArgs.errorMsg = Str("X")
  /\ results = << <<"fulfilled", Bool(FALSE)>> >>
  /\ callCount = 1
  /\ outcome = TimedOut("X")
\* C12: at most one conditionFn invocation is outstanding at any time, and
\* the (n+1)-th invocation is issued only after the n-th invocation's result
\* has been handled and was falsy.
C12_SequentialRetries ==
  /\ callCount - Len(results) \in {0, 1}
  /\ \A i \in 2..callCount :
       /\ Len(results) >= i - 1
       /\ IsFalsyResult(results[i - 1])
       /\ observedAt[i - 1] <= invokedAt[i]

\* C12 witness: the third invocation is outstanding, two results were handled
C12_Witness ==
  /\ pc = "pending"
  /\ callCount = 3
  /\ Len(results) = 2

\* C13 (as claimed): a settled waitFor call is Succeeded, Failed or TimedOut,
\* its outcome never changes and conditionFn is never invoked again; polling
\* is re-entered only after a falsy result with a remaining budget > 0.
C13_StateMachine ==
  [][/\ (outcome # Pending
           => outcome' = outcome /\ callCount' = callCount /\ pc' = "done")
     /\ (outcome' # Pending
           => outcome'[1] \in {"Succeeded", "Failed", "TimedOut"})
     /\ (pc = "pending" /\ pc' = "entry"
           => /\ IsFalsyResult(results'[Len(results')])
              /\ IsNum(args'.timeout)
              /\ args'.timeout[2] > 0)]_vars

\* C14: with a numeric timeout, the timeout passed to each retry is strictly
\* positive and not greater than the timeout of the attempt before it.
C14_ShrinkingBudget ==
  \A i \in 2..Len(frames) :
    IsNum(OrigTimeout)
      => /\ IsNum(frames[i].timeout)
         /\ frames[i].timeout[2] > 0
         /\ frames[i].timeout[2] <= frames[i - 1].timeout[2]

\* C14 witness: a retry that was given 1 ms of an original 2 ms
C14_Witness ==
  /\ Len(frames) >= 2
  /\ frames[1].timeout = Num(2)
  /\ frames[2].timeout = Num(1)

\* C19: while an invocation of conditionFn is outstanding the chain is not
\* settled, however far the clock is past the deadline; the timeout error
\* is only ever the reaction to a falsy result that was handled.
C19_CooperativeTimeout ==
  /\ (callCount > Len(results) => outcome = Pending)
  /\ (outcome[1] = "TimedOut"
        => /\ Len(results) = callCount
           /\ IsFalsyResult(results[Len(results)]))

\* C19 witness: the first invocation is still outstanding after the deadline
C19_Witness ==
  /\ pc = "pending"
  /\ callCount = 1
  /\ IsNum(OrigTimeout)
  /\ clock - frames[1].start > OrigTimeout[2]
  /\ outcome = Pending

(* ----------------------- _$: checked properties ----------------------- *)
\* the keys of `items` at the odd places before place `pos`, joined by dots
RECURSIVE JoinKeys(_, _)
JoinKeys(items, pos) ==
  IF pos <= 2 THEN items[1][2]
  ELSE JoinKeys(items, pos - 2) \o "." \o items[pos - 1][2]

\* C7: when an index i is applied to a resolved sequence of M elements with
\* i >= M, the resolution is rejected with an Error whose message is exactly
\* 'Expected at least <i+1> elements at region "<label>", but only found <M>.'
\* where <label> joins with dots the keys of the path consumed so far.
C7_IndexFailureMessage ==
  \A k \in 1..Len(selections) :
    LET s == selections[k]
        i == s.index[2]
        M == Len(s.found)
    IN i >= M =>
         resolved = Rejected(Error(
           "Expected at least " \o ToString(i + 1) \o " elements at region \""
             \o JoinKeys(path[2], s.pos) \o "\", but only found "
             \o ToString(M) \o "."))

\* C7 witness: ["a", 0, "b", 2] with two elements found for "b"
C7_Witness ==
  /\ path = Arr(<<Str("a"), Num(0), Str("b"), Num(2)>>)
  /\ Len(selections) = 2
  /\ Len(selections[2].found) = 2
  /\ resolved = Rejected(Error(
       "Expected at least 3 elements at region \"a.b\", but only found 2."))

\* C8 (as claimed): every successful resolution yields a sequence of
\* elements; a path ending in an index i that selects an element yields the
\* one-element sequence holding the element at zero-based position i.
C8_ResultIsSequence ==
  resolved[1] = "fulfilled"
    => /\ IsArray(resolved[2])
       /\ (IsArray(path) /\ Len(selections) * 2 = Len(path[2])
             => LET s == selections[Len(selections)]
                IN resolved[2] = Arr(<<s.found[s.index[2] + 1]>>))

\* C9: every lookup that follows an index is issued against the element that
\* index selected, never against the root context.
C9_NestedDescent ==
  \A j \in 2..Len(lookups) :
    LET s == selections[j - 1]
    IN /\ s.index[2] < Len(s.found)
       /\ lookups[j].context = s.found[s.index[2] + 1]
       /\ lookups[j].context # Cmd

\* C9 witness: ["a", 1, "b"]: "b" is looked up within the second "a"
C9_Witness ==
  /\ path = Arr(<<Str("a"), Num(1), Str("b")>>)
  /\ Len(lookups) = 2
  /\ lookups[2].context = Element(Cmd, "css:a", 2)

\* C10: resolving a plain string path issues exactly one lookup, against
\* the root context, for the selector the table gives, and is fulfilled with
\* that lookup's elements, same elements in the same order.
C10_StringPath ==
  (rpc # "idle" /\ ~IsArray(path))
    => /\ Len(lookups) <= 1
       /\ (rpc \in {"lookup", "done"} =>
             /\ Len(lookups) = 1
             /\ lookups[1].context = Cmd
             /\ lookups[1].selector = BuildSelector(Selectors, Undefined, path))
       /\ (rpc = "done" /\ lookups[1].answer[1] = "fulfilled"
             => resolved = Fulfilled(Arr(lookups[1].answer[2])))

\* C10 witness: "a.b" found two elements and both are returned in order
C10_Witness ==
  /\ path = Str("a.b")
  /\ rpc = "done"
  /\ resolved = Fulfilled(Arr(<<Element(Cmd, "css:a.b", 1),
                                Element(Cmd, "css:a.b", 2)>>))
\* C17: one resolution issues its lookups one after another, one per key
\* segment reached and in path order: every lookup but the last was
\* fulfilled and followed by an index that selected an element, so nothing
\* is looked up after a rejected lookup or a failed index check.
C17_LookupProtocol ==
  /\ \A j \in 1..Len(lookups) :
       /\ lookups[j].key = (IF IsArray(path) THEN path[2][2 * j - 1] ELSE path)
       /\ j < Len(lookups)
            => /\ lookups[j].answer[1] = "fulfilled"
               /\ Len(selections) >= j
               /\ selections[j].index[2] < Len(selections[j].found)
  /\ Len(lookups) <= Len(selections) + 1
  /\ (rpc = "lookup") = (Len(lookups) > 0 /\ lookups[Len(lookups)].answer = Pending)
  /\ (resolved[1] = "rejected" => rpc = "done")

\* C17 witness: ["a", 2, "b"] with two elements found: "b" is never looked up
C17_Witness ==
  /\ path = Arr(<<Str("a"), Num(2), Str("b")>>)
  /\ rpc = "done"
  /\ Len(selections) = 1
  /\ Len(selections[1].found) = 2
  /\ resolved[1] = "rejected"
  /\ Len(lookups) = 1

\* C18: when an array path has no second element, or undefined there, the
\* resolution is fulfilled with the sequence found for firstPart unchanged,
\* no lookup is issued for the rest and no index is checked, whatever the
\* number of elements found.
C18_IndexAbsent ==
  (rpc # "idle" /\ IsArray(path) /\ Item(path[2], 1) = Undefined)
    => /\ Len(lookups) <= 1
       /\ selections = <<>>
       /\ (rpc = "done" =>
             \/ /\ lookups[1].answer[1] = "fulfilled"
                /\ resolved = Fulfilled(Arr(lookups[1].answer[2]))
             \/ /\ lookups[1].answer[1] = "rejected"
                /\ resolved = lookups[1].answer)

\* C18 witness: ["a", undefined, "b"] where no element is found for "a"
C18_Witness ==
  /\ path = Arr(<<Str("a"), Undefined, Str("b")>>)
  /\ rpc = "done"
  /\ Len(lookups) = 1
  /\ resolved = Fulfilled(Arr(<<>>))
(* ------------------ waitForRegion: checked properties ----------------- *)
\* the attempt's _$ call found at least one element
FoundSome(a) ==
  a[1] = "fulfilled" /\ (IsArray(a[2]) => Len(a[2][2]) > 0)

\* the attempt's _$ call found no element
FoundNone(a) == a = Fulfilled(Arr(<<>>))

\* the message of waitForRegion's timeout error
UnableMessage ==
  "Unable to find element at region \"" \o RegionText(path) \o "\""

\* C11 (as claimed): once an attempt has resolved the region to at least
\* one element waitForRegion is fulfilled; it is rejected with 'Unable to
\* find element at region "<region>"' only if every attempt found none.
C11_RegionComposition ==
  /\ (\E k \in 1..Len(attempts) : FoundSome(attempts[k]))
       => outcome = Succeeded
  /\ outcome[1] = "TimedOut"
       => /\ outcome = TimedOut(UnableMessage)
          /\ \A k \in 1..Len(attempts) : FoundNone(attempts[k])

\* C15 (as claimed): with the timeout argument omitted the budget is 1000 ms:
\* when every attempt found no element and one of them is handled more than
\* 1000 ms after the call, waitForRegion is rejected with its message.
C15_DefaultBudget ==
  \A k \in 1..Len(attempts) :
    (/\ origArgs.timeout = Undefined
     /\ \A j \in 1..k : FoundNone(attempts[j])
     /\ observedAt[k] - frames[1].start > DefaultTimeout)
      => outcome = TimedOut(UnableMessage)

====
